---- MODULE Spec2Model ----
(***************************************************************************)
(* Model of custom_components/synology_dsm/entity.py: the three entity      *)
(* constructors (base, device, backup task) and the attach hook that        *)
(* subscribes the entity for updates.                                        *)
(*                                                                           *)
(* Python strings are TLA+ strings; an Optional value is a sequence of       *)
(* length 0 (None) or 1 (the value).  A constructor is an operator from the  *)
(* snapshot accessor and its arguments to the object it leaves behind, with  *)
(* the exception it raised, if any, in the field "raised".                   *)
(***************************************************************************)
EXTENDS Integers, Sequences, FiniteSets, TLC

VARIABLES
    api,            \* the SynoApi snapshot accessor: information, network, storage, external_usb, hyper_backup
    last,           \* the object the most recent constructor call left (raised or not), not yet added to the host
    entities,       \* the entities added to the host, in order of addition
    subscriptions   \* the registrations SynoApi.subscribe holds

vars == <<api, last, entities, subscriptions>>

\* ------------------------------------------------------------ Optional

None == <<>>

Some(x) == <<x>>

Value(o) == o[1]

\* ------------------------------------------------------------ Python str

Lowers == "abcdefghijklmnopqrstuvwxyz"

Uppers == "ABCDEFGHIJKLMNOPQRSTUVWXYZ"

Char(s, i) == SubSeq(s, i, i)

LowerSet == {Char(Lowers, i) : i \in 1..Len(Lowers)}

UpperSet == {Char(Uppers, i) : i \in 1..Len(Uppers)}

\* the upper-case letter of each lower-case letter, and the converse
UpperOf ==
    [c \in LowerSet |-> Char(Uppers, CHOOSE i \in 1..Len(Lowers) : Char(Lowers, i) = c)]

LowerOf ==
    [c \in UpperSet |-> Char(Lowers, CHOOSE i \in 1..Len(Uppers) : Char(Uppers, i) = c)]

IsLower(c) == c \in LowerSet

IsUpper(c) == c \in UpperSet

IsCased(c) == IsLower(c) \/ IsUpper(c)

IsSpace(c) == c \in {" ", "\t", "\n", "\r"}

\* str.upper() on one character
ToUpper(c) == IF IsLower(c) THEN UpperOf[c] ELSE c

\* str.lower() on one character
ToLower(c) == IF IsUpper(c) THEN LowerOf[c] ELSE c

RECURSIVE LowerStr(_)
\* str.lower()
LowerStr(s) ==
    IF Len(s) = 0 THEN "" ELSE ToLower(Char(s, 1)) \o LowerStr(SubSeq(s, 2, Len(s)))

\* s.startswith(p)
StartsWith(s, p) == Len(s) >= Len(p) /\ SubSeq(s, 1, Len(p)) = p

\* sub in s
Contains(s, sub) ==
    \E i \in 1..(Len(s) - Len(sub) + 1) : SubSeq(s, i, i + Len(sub) - 1) = sub

RECURSIVE Replace(_, _, _)
\* s.replace(old, new): every non-overlapping occurrence, left to right (old is not empty)
Replace(s, old, new) ==
    IF Len(s) < Len(old) THEN s
    ELSE IF SubSeq(s, 1, Len(old)) = old
         THEN new \o Replace(SubSeq(s, Len(old) + 1, Len(s)), old, new)
         ELSE Char(s, 1) \o Replace(SubSeq(s, 2, Len(s)), old, new)

\* s.capitalize(): first character upper-cased, the rest lower-cased
Capitalize(s) ==
    IF Len(s) = 0 THEN "" ELSE ToUpper(Char(s, 1)) \o LowerStr(SubSeq(s, 2, Len(s)))

RECURSIVE TitleFrom(_, _)
\* the loop of str.title(): a cased character is upper-cased when the character
\* before it is not cased, and lower-cased when it is
TitleFrom(s, previous_is_cased) ==
    IF Len(s) = 0 THEN ""
    ELSE LET c == Char(s, 1)
         IN (IF previous_is_cased THEN ToLower(c) ELSE ToUpper(c))
                \o TitleFrom(SubSeq(s, 2, Len(s)), IsCased(c))

\* s.title()
Title(s) == TitleFrom(s, FALSE)

RECURSIVE LStrip(_)
LStrip(s) ==
    IF Len(s) > 0 /\ IsSpace(Char(s, 1)) THEN LStrip(SubSeq(s, 2, Len(s))) ELSE s

RECURSIVE RStrip(_)
RStrip(s) ==
    IF Len(s) > 0 /\ IsSpace(Char(s, Len(s))) THEN RStrip(SubSeq(s, 1, Len(s) - 1)) ELSE s

\* s.strip()
Strip(s) == RStrip(LStrip(s))

Digits == "0123456789"

RECURSIVE NatStr(_)
\* str(n) for a natural number n
NatStr(n) ==
    IF n < Len(Digits) THEN Char(Digits, n + 1)
    ELSE NatStr(n \div Len(Digits)) \o Char(Digits, (n % Len(Digits)) + 1)

\* an Optional[str] inside an f-string: f"{x}"
FmtStr(o) == IF o = None THEN "None" ELSE Value(o)

\* an Optional[int] inside an f-string: f"{x}"
FmtInt(o) == IF o = None THEN "None" ELSE NatStr(Value(o))

\* ------------------------------------------------------------ collaborators

\* const.DOMAIN
DOMAIN_NAME == "synology_dsm"

\* storage.get_volume(volume_id): the volume record with that id; on a miss the
\* library's answer is storage.miss: no object ("None") or an empty dict ("empty")
GetVolume(storage, volume_id) ==
    IF \E i \in 1..Len(storage.volumes) : storage.volumes[i].id = volume_id
    THEN Some(storage.volumes[CHOOSE i \in 1..Len(storage.volumes) :
                  /\ storage.volumes[i].id = volume_id
                  /\ \A j \in 1..(i - 1) : storage.volumes[j].id # volume_id])
    ELSE IF storage.miss = "None" THEN None ELSE Some(<<>>)

\* storage.get_disk(disk_id), as get_volume
GetDisk(storage, disk_id) ==
    IF \E i \in 1..Len(storage.disks) : storage.disks[i].id = disk_id
    THEN Some(storage.disks[CHOOSE i \in 1..Len(storage.disks) :
                  /\ storage.disks[i].id = disk_id
                  /\ \A j \in 1..(i - 1) : storage.disks[j].id # disk_id])
    ELSE IF storage.miss = "None" THEN None ELSE Some(<<>>)

\* hyper_backup.get_task(task_id): the index of the task record in the snapshot
\* (the record itself is shared, not copied), or 0 when there is none
TaskIndex(hyper_backup, task_id) ==
    IF \E i \in 1..Len(hyper_backup) : Some(hyper_backup[i].task_id) = task_id
    THEN CHOOSE i \in 1..Len(hyper_backup) :
             /\ Some(hyper_backup[i].task_id) = task_id
             /\ \A j \in 1..(i - 1) : Some(hyper_backup[j].task_id) # task_id
    ELSE 0

\* ------------------------------------------------------------ objects

\* an object before __init__ has run: no attribute is set
NewObject(cls) ==
    [cls |-> cls, raised |-> None, entity_description |-> None,
     unique_id |-> None, device_info |-> None, attr_name |-> None,
     device_id |-> None, device_name |-> None, device_manufacturer |-> None,
     device_model |-> None, device_firmware |-> None, device_type |-> None,
     lookups |-> <<>>, on_remove |-> {}]

\* the constructor left by raising exc: the attributes keep what was assigned so far
Raise(self, exc) == [self EXCEPT !.raised = Some(exc)]

\* SynologyDSMEntityDescription(api_key, key, name)
Description(api_key, key) == [api_key |-> api_key, key |-> key, name |-> Some("Status")]

\* ------------------------------------------------------------ SynologyDSMBaseEntity

\* f"{information.serial}_{description.api_key}:{description.key}"
BaseUniqueId(serial, description) ==
    serial \o "_" \o description.api_key \o ":" \o description.key

\* a mutant of BaseInit: the assertions run after the attributes are assigned
BaseInitLateAssert(self, a, description) ==
    LET s1 == [self EXCEPT !.entity_description = Some(description)]
        serial == IF a.information = None THEN "None" ELSE Value(a.information).serial
        s2 == [s1 EXCEPT !.unique_id = Some(BaseUniqueId(serial, description))]
    IN  IF a.information = None \/ a.network = None
        THEN Raise(s2, "AssertionError")
        ELSE [s2 EXCEPT !.device_info = Some(
                 [identifiers |-> {<<DOMAIN_NAME, serial>>},
                  name |-> Value(a.network).hostname,
                  manufacturer |-> Some("Synology"),
                  model |-> Some(Value(a.information).model),
                  sw_version |-> Some(Value(a.information).version_string),
                  via_device |-> None,
                  configuration_url |-> a.config_url])]

\* SynologyDSMBaseEntity.__init__(self, api, coordinator, description)
BaseInit(self, a, description) ==
    LET s1 == [self EXCEPT !.entity_description = Some(description)]
    IN  IF a.information = None THEN Raise(s1, "AssertionError")
        ELSE IF a.network = None THEN Raise(s1, "AssertionError")
        ELSE LET information == Value(a.information)
                 network == Value(a.network)
             IN  [s1 EXCEPT
                     !.unique_id = Some(BaseUniqueId(information.serial, description)),
                     !.device_info = Some(
                         [identifiers |-> {<<DOMAIN_NAME, information.serial>>},
                          name |-> network.hostname,
                          manufacturer |-> Some("Synology"),
                          model |-> Some(information.model),
                          sw_version |-> Some(information.version_string),
                          via_device |-> None,
                          configuration_url |-> a.config_url])]

\* ------------------------------------------------------------ SynologyDSMDeviceEntity

\* the mutant of Dispatch that tests "disk" before "volume"
DispatchDiskFirst(key) ==
    IF Contains(key, "disk") THEN "disk"
    ELSE IF Contains(key, "volume") THEN "volume"
    ELSE IF Contains(key, "device") THEN "device"
    ELSE IF Contains(key, "partition") THEN "partition"
    ELSE "none"

\* the if / elif chain on description.key: the branch that runs
Dispatch(key) ==
    IF Contains(key, "volume") THEN "volume"
    ELSE IF Contains(key, "disk") THEN "disk"
    ELSE IF Contains(key, "device") THEN "device"
    ELSE IF Contains(key, "partition") THEN "partition"
    ELSE "none"

\* the branch "volume" in description.key
VolumeBranch(self, a) ==
    IF self.device_id = None THEN Raise(self, "AssertionError")
    ELSE LET volume == GetVolume(Value(a.storage), Value(self.device_id))
             s1 == [self EXCEPT !.lookups = Append(@, "volume")]
         IN  IF volume = None THEN Raise(s1, "AssertionError")
             ELSE IF "id" \notin DOMAIN Value(volume) THEN Raise(s1, "KeyError")
             ELSE LET v == Value(volume)
                  IN  [s1 EXCEPT
                          !.device_name = Some(Capitalize(Replace(v.id, "_", " "))),
                          !.device_manufacturer = Some("Synology"),
                          !.device_model = Some(Value(a.information).model),
                          !.device_firmware = Some(Value(a.information).version_string),
                          !.device_type = Some(Replace(Replace(Replace(
                              v.device_type, "_", " "), "raid", "RAID"), "shr", "SHR"))]

\* the branch "disk" in description.key
DiskBranch(self, a) ==
    IF self.device_id = None THEN Raise(self, "AssertionError")
    ELSE LET disk == GetDisk(Value(a.storage), Value(self.device_id))
             s1 == [self EXCEPT !.lookups = Append(@, "disk")]
         IN  IF disk = None THEN Raise(s1, "AssertionError")
             ELSE IF "name" \notin DOMAIN Value(disk) THEN Raise(s1, "KeyError")
             ELSE LET d == Value(disk)
                  IN  [s1 EXCEPT
                          !.device_name = Some(d.name),
                          !.device_manufacturer = Some(d.vendor),
                          !.device_model = Some(Strip(d.model)),
                          !.device_firmware = Some(d.firm),
                          !.device_type = Some(d.diskType)]

\* a mutant of DeviceLoop: no break, so the last device that matches is copied
DeviceLoopNoBreak(self, devices) ==
    LET hits == {i \in 1..Len(devices) : Some(devices[i].device_name) = self.device_id}
    IN  IF hits = {} THEN self
        ELSE LET device == devices[CHOOSE i \in hits : \A j \in hits : j <= i]
             IN  [self EXCEPT
                     !.device_name = Some(device.device_name),
                     !.device_manufacturer = Some(device.device_manufacturer),
                     !.device_model = Some(device.device_product_name),
                     !.device_type = Some(device.device_type)]

\* for device in external_usb.get_devices.values(): copy the first device whose
\* device_name is the device id, and break
DeviceLoop(self, devices) ==
    LET hits == {i \in 1..Len(devices) : Some(devices[i].device_name) = self.device_id}
    IN  IF hits = {} THEN self
        ELSE LET device == devices[CHOOSE i \in hits : \A j \in hits : i <= j]
             IN  [self EXCEPT
                     !.device_name = Some(device.device_name),
                     !.device_manufacturer = Some(device.device_manufacturer),
                     !.device_model = Some(device.device_product_name),
                     !.device_type = Some(device.device_type)]

\* the mutant of DeviceBranch that asserts a device was found, as the volume and
\* the disk branch do
DeviceBranchAssertFound(self, a) ==
    IF self.device_id = None THEN Raise(self, "AssertionError")
    ELSE IF a.external_usb = None THEN Raise(self, "AssertionError")
    ELSE LET s1 == DeviceLoop([self EXCEPT !.lookups = Append(@, "device")],
                              Value(a.external_usb))
         IN  IF s1.device_name = None THEN Raise(s1, "AssertionError") ELSE s1

\* the branch "device" in description.key
DeviceBranch(self, a) ==
    IF self.device_id = None THEN Raise(self, "AssertionError")
    ELSE IF a.external_usb = None THEN Raise(self, "AssertionError")
    ELSE DeviceLoop([self EXCEPT !.lookups = Append(@, "device")], Value(a.external_usb))

\* for partition in device.device_partitions.values(): copy the first partition
\* whose title is the device id, and break (out of this inner loop only)
InnerPartitionLoop(self, partitions) ==
    LET hits == {i \in 1..Len(partitions) :
                     Some(partitions[i].partition_title) = self.device_id}
    IN  IF hits = {} THEN self
        ELSE LET partition == partitions[CHOOSE i \in hits : \A j \in hits : i <= j]
             IN  [self EXCEPT
                     !.device_name = Some(partition.partition_title),
                     !.device_manufacturer = Some("Synology"),
                     !.device_model = Some(partition.filesystem)]

RECURSIVE PartitionLoop(_, _, _)
\* for device in external_usb.get_devices.values(), from the i-th device on: the
\* inner loop runs for every device, whatever the earlier devices matched
PartitionLoop(self, devices, i) ==
    IF i > Len(devices) THEN self
    ELSE PartitionLoop(InnerPartitionLoop(self, devices[i].device_partitions),
                       devices, i + 1)

\* the branch "partition" in description.key
PartitionBranch(self, a) ==
    IF self.device_id = None THEN Raise(self, "AssertionError")
    ELSE IF a.external_usb = None THEN Raise(self, "AssertionError")
    ELSE PartitionLoop([self EXCEPT !.lookups = Append(@, "partition")],
                       Value(a.external_usb), 1)

\* the mutant of DeviceUniqueId that leaves the base unique id as it is
DeviceUniqueIdNoSuffix(unique_id, device_id) == unique_id

\* self._attr_unique_id += f"_{self._device_id}"
DeviceUniqueId(unique_id, device_id) == unique_id \o "_" \o FmtStr(device_id)

\* SynologyDSMDeviceEntity.__init__(self, api, coordinator, description, device_id)
DeviceInit(self, a, description, device_id) ==
    LET s1 == BaseInit(self, a, description)
    IN  IF s1.raised # None THEN s1
        ELSE LET s2 == [s1 EXCEPT !.device_id = device_id]
             IN  IF a.storage = None THEN Raise(s2, "AssertionError")
                 ELSE LET branch == Dispatch(description.key)
                          s3 == CASE branch = "volume" -> VolumeBranch(s2, a)
                                  [] branch = "disk" -> DiskBranch(s2, a)
                                  [] branch = "device" -> DeviceBranch(s2, a)
                                  [] branch = "partition" -> PartitionBranch(s2, a)
                                  [] OTHER -> s2
                          information == Value(a.information)
                          network == Value(a.network)
                      IN  IF s3.raised # None THEN s3
                          ELSE [s3 EXCEPT
                              !.unique_id = Some(DeviceUniqueId(Value(@), s3.device_id)),
                              !.device_info = Some(
                                  [identifiers |-> {<<DOMAIN_NAME,
                                       information.serial \o "_" \o FmtStr(s3.device_id)>>},
                                   name |-> network.hostname \o " ("
                                                \o FmtStr(s3.device_name) \o ")",
                                   manufacturer |-> s3.device_manufacturer,
                                   model |-> s3.device_model,
                                   sw_version |-> s3.device_firmware,
                                   via_device |-> Some(<<DOMAIN_NAME, information.serial>>),
                                   configuration_url |-> a.config_url])]

\* ------------------------------------------------------------ SynologyDSMBackupTaskEntity

\* the length of the prefix "image_" that task['transfer_type'][6:] drops
ImagePrefixLen == 6

\* the mutant of RewriteTransferType that drops one character too few
RewriteTransferTypeShort(transfer_type) ==
    IF StartsWith(transfer_type, "image_")
    THEN SubSeq(transfer_type, ImagePrefixLen, Len(transfer_type)) \o " image"
    ELSE transfer_type

\* if task['transfer_type'].startswith('image_'):
\*     task['transfer_type'] = task['transfer_type'][6:] + ' image'
\* the value task['transfer_type'] holds afterwards
RewriteTransferType(transfer_type) ==
    IF StartsWith(transfer_type, "image_")
    THEN SubSeq(transfer_type, ImagePrefixLen + 1, Len(transfer_type)) \o " image"
    ELSE transfer_type

\* task['transfer_type'].replace("_", " ").title() + ' Backup Task'
BackupModel(transfer_type) ==
    Title(Replace(transfer_type, "_", " ")) \o " Backup Task"

\* SynologyDSMBackupTaskEntity.__init__(self, api, coordinator, description, device_id):
\* the object it leaves, and the snapshot with the task record as it leaves it
BackupTaskInit(self, a, description, device_id) ==
    LET s1 == BaseInit(self, a, description)
    IN  IF s1.raised # None THEN [self |-> s1, api |-> a]
        ELSE LET s2 == [s1 EXCEPT !.device_id = device_id] IN
        IF a.hyper_backup = None THEN [self |-> Raise(s2, "AttributeError"), api |-> a]
        ELSE LET tasks == Value(a.hyper_backup)
                 t == TaskIndex(tasks, device_id)
        IN  IF t = 0
            THEN [self |-> Raise([s2 EXCEPT !.device_manufacturer = Some("Synology")],
                                 "TypeError"),
                  api |-> a]
            ELSE LET task == tasks[t]
                     transfer_type == RewriteTransferType(task.transfer_type)
                     s3 == [s2 EXCEPT
                               !.device_manufacturer = Some("Synology"),
                               !.device_name = Some(task.name),
                               !.device_model = Some(BackupModel(transfer_type))]
                     information == Value(a.information)
                 IN  [self |-> [s3 EXCEPT
                          !.attr_name = Some(task.name \o " " \o FmtStr(description.name)),
                          !.unique_id = Some(Value(@) \o "_hyper_" \o FmtInt(s3.device_id)),
                          !.device_info = Some(
                              [identifiers |-> {<<DOMAIN_NAME,
                                   information.serial \o "_hyper_" \o FmtInt(s3.device_id)>>},
                               name |-> task.name,
                               manufacturer |-> s3.device_manufacturer,
                               model |-> s3.device_model,
                               sw_version |-> None,
                               via_device |-> Some(<<DOMAIN_NAME, information.serial>>),
                               configuration_url |-> a.config_url])],
                      api |-> [a EXCEPT !.hyper_backup = Some(
                                  [tasks EXCEPT ![t].transfer_type = transfer_type])]]

\* ------------------------------------------------------------ subscriptions

\* SynoApi.subscribe(api_key, unique_id): the registrations afterwards, and the
\* deregistration handle it returns
Subscribe(subs, api_key, unique_id) ==
    LET used == {r.handle : r \in subs}
        handle == CHOOSE h \in 0..Cardinality(used) : h \notin used
    IN  [subscriptions |-> subs \cup {[api_key |-> api_key, unique_id |-> unique_id,
                                       handle |-> handle]},
         handle |-> handle]

\* calling the handle subscribe returned
Unsubscribe(subs, handle) == {r \in subs : r.handle # handle}

\* the mutant of AsyncAddedToHass that drops the handle subscribe returns
AsyncAddedToHassNoOnRemove(self, subs) ==
    LET r == Subscribe(subs, Value(self.entity_description).api_key, self.unique_id)
    IN  [self |-> self, subscriptions |-> r.subscriptions]

\* SynologyDSMBaseEntity.async_added_to_hass(self): the entity and the
\* registrations afterwards
AsyncAddedToHass(self, subs) ==
    LET r == Subscribe(subs, Value(self.entity_description).api_key, self.unique_id)
    IN  [self |-> [self EXCEPT !.on_remove = @ \cup {r.handle}],
         subscriptions |-> r.subscriptions]

\* ------------------------------------------------------------ snapshots

Information == [serial |-> "ABC123", model |-> "DS920+", version_string |-> "DSM 7.2"]

Network == [hostname |-> "nas"]

Volumes ==
    <<[id |-> "volume_1", device_type |-> "raid_1"],
      [id |-> "volume_2", device_type |-> "shr_without_disk_protect"]>>

Disks ==
    <<[id |-> "disk1", name |-> "Drive 1", vendor |-> "WDC", model |-> "  ModelX ",
       firm |-> "81.00A81", diskType |-> "SATA"]>>

\* a lookup of an id that Volumes or Disks does not hold is a miss
Storages == {[volumes |-> Volumes, disks |-> Disks, miss |-> m] : m \in {"None", "empty"}}

UsbDevices ==
    {[device_name |-> "usb1", device_manufacturer |-> "SanDisk",
      device_product_name |-> "Ultra", device_type |-> "usbDisk",
      device_partitions |-> <<[partition_title |-> "usb1p1", filesystem |-> "ntfs"]>>],
     [device_name |-> "usb1", device_manufacturer |-> "Kingston",
      device_product_name |-> "DataTraveler", device_type |-> "usbPrinter",
      device_partitions |-> <<[partition_title |-> "usb1p1", filesystem |-> "ext4"],
                              [partition_title |-> "usb1p1", filesystem |-> "vfat"]>>],
     [device_name |-> "usb2", device_manufacturer |-> "Seagate",
      device_product_name |-> "Expansion", device_type |-> "usbDisk",
      device_partitions |-> <<[partition_title |-> "usb2p1", filesystem |-> "exfat"]>>]}

\* the longest USB device collection of a snapshot
MaxUsbDevices == 2

UsbCollections == UNION {[1..n -> UsbDevices] : n \in 0..MaxUsbDevices}

ConfigUrl == "https://nas:5001"

Task(task_id, transfer_type) ==
    [task_id |-> task_id, name |-> "Nightly", transfer_type |-> transfer_type]

\* the snapshot with every part present
Good ==
    [information |-> Some(Information), network |-> Some(Network),
     storage |-> Some([volumes |-> Volumes, disks |-> Disks, miss |-> "None"]),
     external_usb |-> None,
     hyper_backup |-> Some(<<Task(1, "image_local")>>),
     config_url |-> ConfigUrl]

ApiKeys == {"storage", "usb"}

LifecycleApiKeys == {"storage"}

\* ------------------------------------------------------------ actions

\* SynologyDSMBaseEntity(api, coordinator, description)
ConstructBase(api_key, key) ==
    /\ last' = Some(BaseInit(NewObject("SynologyDSMBaseEntity"), api,
                             Description(api_key, key)))
    /\ UNCHANGED <<api, entities, subscriptions>>

\* SynologyDSMDeviceEntity(api, coordinator, description, device_id)
ConstructDevice(api_key, key, device_id) ==
    /\ last' = Some(DeviceInit(NewObject("SynologyDSMDeviceEntity"), api,
                               Description(api_key, key), device_id))
    /\ UNCHANGED <<api, entities, subscriptions>>

\* SynologyDSMBackupTaskEntity(api, coordinator, description, device_id)
ConstructBackupTask(api_key, key, device_id) ==
    LET r == BackupTaskInit(NewObject("SynologyDSMBackupTaskEntity"), api,
                            Description(api_key, key), device_id)
    IN  /\ last' = Some(r.self)
        /\ api' = r.api
        /\ UNCHANGED <<entities, subscriptions>>

\* the entities the host holds at most
MaxEntities == 2

\* the host adds the constructed entity and calls its async_added_to_hass
AddToHass ==
    /\ last # None
    /\ Value(last).raised = None
    /\ Len(entities) < MaxEntities
    /\ LET r == AsyncAddedToHass(Value(last), subscriptions)
       IN  /\ entities' = Append(entities, r.self)
           /\ subscriptions' = r.subscriptions
    /\ last' = None
    /\ UNCHANGED api

RECURSIVE RunOnRemove(_, _)
\* the host calls every callback the entity registered with async_on_remove
RunOnRemove(subs, handles) ==
    IF handles = {} THEN subs
    ELSE LET h == CHOOSE x \in handles : TRUE
         IN  RunOnRemove(Unsubscribe(subs, h), handles \ {h})

\* the host removes the i-th entity
RemoveFromHass(i) ==
    /\ i \in 1..Len(entities)
    /\ subscriptions' = RunOnRemove(subscriptions, entities[i].on_remove)
    /\ entities' = SubSeq(entities, 1, i - 1) \o SubSeq(entities, i + 1, Len(entities))
    /\ UNCHANGED <<api, last>>

\* ------------------------------------------------------------ the entity lifecycle

Snapshots ==
    {[Good EXCEPT !.information = i, !.network = n] :
         i \in {None, Some(Information)}, n \in {None, Some(Network)}}

Keys == {"status", "disk_temp", "disk_temp_disk1"}

DeviceIds == {None, Some("disk1"), Some("hyper_1")}

BackupKeys == {"status"}

TaskIds == {None, Some(1)}

Init ==
    /\ api \in Snapshots
    /\ last = None
    /\ entities = <<>>
    /\ subscriptions = {}

Next ==
    \/ \E k \in LifecycleApiKeys, key \in Keys : ConstructBase(k, key)
    \/ \E k \in LifecycleApiKeys, key \in Keys, d \in DeviceIds : ConstructDevice(k, key, d)
    \/ \E k \in LifecycleApiKeys, key \in BackupKeys, d \in TaskIds :
           ConstructBackupTask(k, key, d)
    \/ AddToHass
    \/ \E i \in 1..MaxEntities : RemoveFromHass(i)

Spec == Init /\ [][Next]_vars

\* ------------------------------------------------------------ device construction

DeviceSnapshots ==
    {[Good EXCEPT !.information = i, !.network = n, !.storage = s, !.external_usb = u] :
         i \in {None, Some(Information)}, n \in {None, Some(Network)},
         s \in {None} \cup {Some(x) : x \in Storages},
         u \in {None} \cup {Some(x) : x \in UsbCollections}}

DeviceKeys ==
    {"status", "volume_status", "disk_temp", "device_status", "partition_size",
     "partition_disk", "device_volume", "partition_device", "disk_partition_device_volume"}

SubDeviceIds ==
    {None, Some("volume_1"), Some("volume_2"), Some("disk1"), Some("usb1"),
     Some("usb1p1"), Some("usb2p1")}

InitDevice ==
    /\ api \in DeviceSnapshots
    /\ last = None
    /\ entities = <<>>
    /\ subscriptions = {}

NextDevice ==
    \E k \in ApiKeys, key \in DeviceKeys, d \in SubDeviceIds : ConstructDevice(k, key, d)

SpecDevice == InitDevice /\ [][NextDevice]_vars

\* ------------------------------------------------------------ backup task construction

Tokens == {"image_", "image", "local", "_s3B"}

\* the most tokens a transfer_type of a snapshot is made of
MaxTokens == 3

RECURSIVE Join(_)
Join(ts) == IF Len(ts) = 0 THEN "" ELSE Head(ts) \o Join(Tail(ts))

TransferTypes == {Join(ts) : ts \in UNION {[1..n -> Tokens] : n \in 0..MaxTokens}}

BackupSnapshots ==
    {[Good EXCEPT !.information = i] : i \in {None, Some(Information)}}
        \cup {[Good EXCEPT !.hyper_backup = h] :
                 h \in {None, Some(<<>>)}
                     \cup {Some(<<Task(1, t), Task(2, "image_remote")>>) :
                              t \in TransferTypes}}

BackupTaskIds == {None, Some(1), Some(2), Some(12)}

InitBackup ==
    /\ api \in BackupSnapshots
    /\ last = None
    /\ entities = <<>>
    /\ subscriptions = {}

NextBackup ==
    \E d \in BackupTaskIds : ConstructBackupTask("backup", "backup_status", d)

SpecBackup == InitBackup /\ [][NextBackup]_vars

\* ------------------------------------------------------------ properties

\* the constructor call that ran last returned an object of class cls
Constructed(cls) ==
    /\ last # None
    /\ Value(last).cls = cls
    /\ Value(last).raised = None

\* the description the last constructor call was given
LastDescription == Value(Value(last).entity_description)

\* information, network and storage are present in the snapshot
TopLevelPresent ==
    /\ api.information # None
    /\ api.network # None
    /\ api.storage # None

\* no sub-device attribute of the last object is set
SubDeviceFieldsNull ==
    /\ Value(last).device_name = None
    /\ Value(last).device_manufacturer = None
    /\ Value(last).device_model = None
    /\ Value(last).device_firmware = None
    /\ Value(last).device_type = None

\* C1: a constructed device entity has the unique id
\* "{serial}_{api_key}:{key}_{device_id}", whichever branch its key selects; serial
\* "ABC123", api_key "storage", key "disk_temp" and device id "disk1" give
\* "ABC123_storage:disk_temp_disk1".
C1_DeviceUniqueIdFormat ==
    Constructed("SynologyDSMDeviceEntity") =>
        /\ Value(last).unique_id =
               Some(Value(api.information).serial \o "_" \o LastDescription.api_key
                    \o ":" \o LastDescription.key \o "_" \o FmtStr(Value(last).device_id))
        /\ (/\ LastDescription.api_key = "storage"
            /\ LastDescription.key = "disk_temp"
            /\ Value(last).device_id = Some("disk1"))
               => Value(last).unique_id = Some("ABC123_storage:disk_temp_disk1")

C1_Witness ==
    /\ Constructed("SynologyDSMDeviceEntity")
    /\ LastDescription.key = "disk_temp"
    /\ Value(last).device_id = Some("disk1")
    /\ Value(last).lookups = <<"disk">>
    /\ Value(last).unique_id = Some("ABC123_storage:disk_temp_disk1")

\* the lookups in the order the spec gives them
LookupOrder == <<"volume", "disk", "device", "partition">>

\* the lookups whose name the key contains
Named(key) == {i \in 1..Len(LookupOrder) : Contains(key, LookupOrder[i])}

\* the earliest lookup, in LookupOrder, whose name the key contains
Earliest(key) == LookupOrder[CHOOSE i \in Named(key) : \A j \in Named(key) : i <= j]

\* the last constructor call was of a device entity and passed the top-level
\* preconditions
DeviceCall ==
    /\ last # None
    /\ Value(last).cls = "SynologyDSMDeviceEntity"
    /\ TopLevelPresent

\* C8: at most one lookup runs, and it is the earliest of volume, disk, device,
\* partition that the key contains; a constructed entity whose key contains one of
\* them ran exactly that lookup; a key that contains none runs no lookup, leaves the
\* sub-device fields null and the construction succeeds, also with a null device id.
C8_DispatchOrder ==
    DeviceCall =>
        /\ Len(Value(last).lookups) <= 1
        /\ \A i \in DOMAIN Value(last).lookups :
               /\ Named(LastDescription.key) # {}
               /\ Value(last).lookups[i] = Earliest(LastDescription.key)
        /\ (Named(LastDescription.key) # {} /\ Value(last).raised = None)
               => Value(last).lookups = <<Earliest(LastDescription.key)>>
        /\ Named(LastDescription.key) = {}
               => /\ Value(last).raised = None
                  /\ Value(last).lookups = <<>>
                  /\ SubDeviceFieldsNull

C8_Witness ==
    /\ Constructed("SynologyDSMDeviceEntity")
    /\ LastDescription.key = "partition_disk"
    /\ Value(last).lookups = <<"disk">>
    /\ Value(last).device_name = Some("Drive 1")

\* the last constructor call was of a device entity whose key selects `lookup`,
\* with a device id, and every snapshot part the lookup reads is present
LookupCall(lookup) ==
    /\ DeviceCall
    /\ Named(LastDescription.key) # {}
    /\ Earliest(LastDescription.key) = lookup
    /\ Value(last).device_id # None
    /\ lookup \in {"device", "partition"} => api.external_usb # None

\* the snapshot holds no record that the lookup matches with the device id
Miss(lookup) ==
    LET id == Value(Value(last).device_id)
    IN  CASE lookup = "volume" ->
                 \A i \in 1..Len(Value(api.storage).volumes) :
                     Value(api.storage).volumes[i].id # id
          [] lookup = "disk" ->
                 \A i \in 1..Len(Value(api.storage).disks) :
                     Value(api.storage).disks[i].id # id
          [] lookup = "device" ->
                 \A i \in 1..Len(Value(api.external_usb)) :
                     Value(api.external_usb)[i].device_name # id
          [] lookup = "partition" ->
                 \A i \in 1..Len(Value(api.external_usb)) :
                     \A j \in 1..Len(Value(api.external_usb)[i].device_partitions) :
                         Value(api.external_usb)[i].device_partitions[j].partition_title # id

\* C5 as the spec states it: in a construction that reaches a lookup (the top-level
\* snapshot parts present, a device id given), a miss of any of the four lookups is
\* no error and leaves the sub-device fields null.
C5_MissNeverRaises ==
    \A lookup \in {"volume", "disk", "device", "partition"} :
        (LookupCall(lookup) /\ Miss(lookup))
            => Value(last).raised = None /\ SubDeviceFieldsNull

\* C5 amended: in a construction that reaches a lookup, a miss of the USB device or
\* the USB partition lookup is no error and leaves the sub-device fields null; a miss
\* of the volume or the disk lookup aborts the construction.
C5_UsbMissNeverRaises ==
    /\ \A lookup \in {"device", "partition"} :
           (LookupCall(lookup) /\ Miss(lookup))
               => Value(last).raised = None /\ SubDeviceFieldsNull
    /\ \A lookup \in {"volume", "disk"} :
           (LookupCall(lookup) /\ Miss(lookup))
               => Value(last).raised \in {Some("AssertionError"), Some("KeyError")}

C5_Witness ==
    /\ LookupCall("partition")
    /\ Miss("partition")
    /\ Len(Value(api.external_usb)) > 0
    /\ Value(last).raised = None
    /\ Value(last).lookups = <<"partition">>
    /\ Value(last).unique_id # None

\* C6: with a key that selects the USB device lookup and a device id (and the
\* snapshot's information, network, storage and USB collection present), when no
\* device of the collection has the device id as its device_name the construction
\* completes with name, manufacturer, model and type null; when some device has,
\* the construction completes and the four fields are those of the first such device.
C6_UsbDeviceLookup ==
    LookupCall("device") =>
        LET devices == Value(api.external_usb)
            hits == {i \in 1..Len(devices) :
                         devices[i].device_name = Value(Value(last).device_id)}
        IN  /\ Value(last).raised = None
            /\ hits = {} =>
                   /\ Value(last).device_name = None
                   /\ Value(last).device_manufacturer = None
                   /\ Value(last).device_model = None
                   /\ Value(last).device_type = None
            /\ hits # {} =>
                   \E i \in hits :
                       /\ \A j \in hits : i <= j
                       /\ Value(last).device_name = Some(devices[i].device_name)
                       /\ Value(last).device_manufacturer =
                              Some(devices[i].device_manufacturer)
                       /\ Value(last).device_model = Some(devices[i].device_product_name)
                       /\ Value(last).device_type = Some(devices[i].device_type)

C6_Witness ==
    /\ LookupCall("device")
    /\ Miss("device")
    /\ Len(Value(api.external_usb)) > 0
    /\ Value(last).raised = None
    /\ Value(last).device_name = None
    /\ Value(last).unique_id # None

\* C9: with a key that selects the partition lookup, the name and the model of a
\* constructed entity are the title and the filesystem of the first partition, in
\* the order of the devices and of each device's partitions, whose title is the
\* device id, and the manufacturer is "Synology".
C9_FirstPartitionWins ==
    (LookupCall("partition") /\ ~Miss("partition") /\ Value(last).raised = None) =>
        LET devices == Value(api.external_usb)
            id == Value(Value(last).device_id)
            hits == UNION {{<<i, j>> : j \in {k \in 1..Len(devices[i].device_partitions) :
                               devices[i].device_partitions[k].partition_title = id}} :
                           i \in 1..Len(devices)}
            first == CHOOSE h \in hits :
                         \A g \in hits : h[1] < g[1] \/ (h[1] = g[1] /\ h[2] <= g[2])
        IN  /\ Value(last).device_name = Some(id)
            /\ Value(last).device_manufacturer = Some("Synology")
            /\ Value(last).device_model =
                   Some(devices[first[1]].device_partitions[first[2]].filesystem)

\* the (api_key, unique id) pair an entity subscribes under
SubscriptionKey(e) == <<Value(e.entity_description).api_key, e.unique_id>>

\* two entities were constructed with different (kind, api_key, key, device id)
DifferentCombination(e, f) ==
    \/ e.cls # f.cls
    \/ e.entity_description # f.entity_description
    \/ e.device_id # f.device_id

\* C2: any two entities the host holds that were constructed with different
\* combinations of (entity kind, api_key, key, device id) have different unique ids.
C2_UniqueIdsDistinct ==
    \A i, j \in 1..Len(entities) :
        (i # j /\ DifferentCombination(entities[i], entities[j]))
            => entities[i].unique_id # entities[j].unique_id

\* C3: a constructor call with the snapshot's information or network absent raises
\* an assertion failure with neither the unique id nor the device-info record set,
\* and every entity the host holds has both.
C3_AbortBeforeIdentity ==
    /\ (last # None /\ (api.information = None \/ api.network = None))
           => /\ Value(last).raised = Some("AssertionError")
              /\ Value(last).unique_id = None
              /\ Value(last).device_info = None
    /\ \A i \in 1..Len(entities) :
           /\ entities[i].raised = None
           /\ entities[i].unique_id # None
           /\ entities[i].device_info # None

C3_Witness ==
    /\ last # None
    /\ Value(last).cls = "SynologyDSMDeviceEntity"
    /\ api.information # None
    /\ api.network = None
    /\ Value(last).raised = Some("AssertionError")
    /\ Value(last).entity_description # None

\* the unique id an entity of each kind is constructed with
FullUniqueId(e) ==
    LET d == Value(e.entity_description)
        base == Value(api.information).serial \o "_" \o d.api_key \o ":" \o d.key
    IN  CASE e.cls = "SynologyDSMBaseEntity" -> base
          [] e.cls = "SynologyDSMDeviceEntity" -> base \o "_" \o FmtStr(e.device_id)
          [] e.cls = "SynologyDSMBackupTaskEntity" ->
                 base \o "_hyper_" \o FmtInt(e.device_id)

\* C4: the subscriptions are those of the attached entities: under every
\* (api_key, unique id) pair there are as many subscriptions as attached entities
\* with that pair, and every attached entity holds the one handle of a subscription
\* under its description's api_key and its full unique id.
C4_SubscribedWhileAttached ==
    /\ \A p \in {SubscriptionKey(entities[i]) : i \in 1..Len(entities)}
                \cup {<<r.api_key, r.unique_id>> : r \in subscriptions} :
           Cardinality({r \in subscriptions : <<r.api_key, r.unique_id>> = p})
               = Cardinality({i \in 1..Len(entities) : SubscriptionKey(entities[i]) = p})
    /\ \A i \in 1..Len(entities) :
           /\ Cardinality(entities[i].on_remove) = 1
           /\ \E r \in subscriptions :
                  /\ r.handle \in entities[i].on_remove
                  /\ r.api_key = Value(entities[i].entity_description).api_key
                  /\ r.unique_id = Some(FullUniqueId(entities[i]))

C4_Witness ==
    /\ Len(entities) = 1
    /\ entities[1].cls = "SynologyDSMDeviceEntity"
    /\ Cardinality(subscriptions) = 1
    /\ \E r \in subscriptions :
           /\ r.api_key = "storage"
           /\ r.unique_id = Some("ABC123_storage:disk_temp_disk1")
           /\ entities[1].on_remove = {r.handle}

\* the characters of m are those of u after replace("_", " ").title(): an underscore
\* is a space, a cased character is upper case after a character that is not cased
\* and lower case after one that is
IsTitled(m, u) ==
    /\ Len(m) = Len(u)
    /\ \A i \in 1..Len(u) :
           Char(m, i) =
               IF Char(u, i) = "_" THEN " "
               ELSE IF i > 1 /\ IsCased(Char(u, i - 1)) THEN ToLower(Char(u, i))
               ELSE ToUpper(Char(u, i))

\* the model the claim gives a task of transfer_type t
IsBackupModelOf(m, t) ==
    LET u == IF Len(t) >= 6 /\ SubSeq(t, 1, 6) = "image_"
             THEN SubSeq(t, 7, Len(t)) \o " image"
             ELSE t
    IN  /\ Len(m) = Len(u) + Len(" Backup Task")
        /\ SubSeq(m, Len(u) + 1, Len(m)) = " Backup Task"
        /\ IsTitled(SubSeq(m, 1, Len(u)), u)

\* the transfer_type the snapshot holds for the task the last object was made for
LastTransferType ==
    Value(api.hyper_backup)[TaskIndex(Value(api.hyper_backup),
                                      Value(last).device_id)].transfer_type

\* C7: a construction of a backup-task entity whose task resolves gives the
\* entity the model derived from the transfer_type the task had when the
\* construction began: "image_" dropped from the front and " image" appended if it
\* starts with "image_", then underscores to spaces, title case, " Backup Task";
\* "image_local" gives "Local Image Backup Task".
C7_BackupModel ==
    [][Constructed("SynologyDSMBackupTaskEntity")' =>
           LET t == Value(api.hyper_backup)[TaskIndex(Value(api.hyper_backup),
                        Value(last').device_id)].transfer_type
           IN  /\ IsBackupModelOf(Value(Value(last').device_model), t)
               /\ t = "image_local"
                      => Value(last').device_model = Some("Local Image Backup Task")]_vars

C7_Witness ==
    /\ Constructed("SynologyDSMBackupTaskEntity")
    /\ Value(last).device_id = Some(1)
    /\ Value(last).device_model = Some("Local Image Backup Task")
    /\ LastTransferType = "local image"

\* C10: two constructions in a row of a backup-task entity for the same task id
\* give the same model.
C10_RepeatedConstructionStable ==
    [][(/\ Constructed("SynologyDSMBackupTaskEntity")
        /\ Constructed("SynologyDSMBackupTaskEntity")'
        /\ Value(last').device_id = Value(last).device_id)
           => Value(last').device_model = Value(last).device_model]_vars

====
